---- MODULE Spec2Model ----
(***************************************************************************)
(* Jensen wake model (JensenOpenMDAOconnect.py): the cosine smoothing      *)
(* factor, the JensenCosine and JensenCosineFortran components and the     *)
(* Jensen group that selects one of them.                                  *)
(*                                                                         *)
(* Floating-point numbers are held as fixed-point integers:                *)
(*   - dimensionless reals and speeds in units of 1/ONE (ONE = 10^4);      *)
(*   - lengths in decimetres (Metres(m) = 10*m);                           *)
(*   - angles in milliradians, spread_angle as given, in degrees;          *)
(*   - entries of loss after "loss[j] = loss[j]**2" in units of 1/ONE^2.   *)
(* Products and quotients round to the nearest unit.                       *)
(***************************************************************************)
EXTENDS Integers, Sequences, FiniteSets, TLC

----------------------------------------------------------------------------
(* Fixed-point arithmetic *)

ONE == 10^4

Abs(x) == IF x < 0 THEN -x ELSE x

Sgn(x) == IF x < 0 THEN -1 ELSE IF x > 0 THEN 1 ELSE 0

\* a / b for b # 0, rounded to the nearest integer
RDiv(a, b) == Sgn(a) * Sgn(b) * ((2 * Abs(a) + Abs(b)) \div (2 * Abs(b)))

\* product of two reals held in units of 1/ONE (or of one such and a length)
Mul(a, b) == RDiv(a * b, ONE)

\* quotient of two numbers of the same unit, in units of 1/ONE
Div(a, b) == RDiv(a * ONE, b)

RECURSIVE SqrtSearch(_, _, _)
SqrtSearch(x, lo, hi) ==
    IF lo >= hi THEN lo
    ELSE LET mid == (lo + hi + 1) \div 2
         IN  IF mid * mid <= x THEN SqrtSearch(x, mid, hi)
                               ELSE SqrtSearch(x, lo, mid - 1)

\* np.sqrt of x >= 0 held in units of 1/ONE^2: the result is in units of 1/ONE
Sqrt(x) ==
    LET s == SqrtSearch(x, 0, 46340)
    IN  IF x - s * s > s THEN s + 1 ELSE s

Metres(m) == 10 * m

----------------------------------------------------------------------------
(* Trigonometry on milliradians *)

\* np.pi, in milliradians
Pi == 3142

HalfPi == Pi \div 2

\* SinTable[k + 1] = 1000 * sin(k / 1000), k = 0 .. HalfPi
SinTable ==
  <<
     0, 1, 2, 3, 4, 5, 6, 7, 8, 9, 10, 11, 12, 13, 14, 15, 16, 17, 18, 19,
     20, 21, 22, 23, 24, 25, 26, 27, 28, 29, 30, 31, 32, 33, 34, 35, 36, 37, 38, 39,
     40, 41, 42, 43, 44, 45, 46, 47, 48, 49, 50, 51, 52, 53, 54, 55, 56, 57, 58, 59,
     60, 61, 62, 63, 64, 65, 66, 67, 68, 69, 70, 71, 72, 73, 74, 75, 76, 77, 78, 79,
     80, 81, 82, 83, 84, 85, 86, 87, 88, 89, 90, 91, 92, 93, 94, 95, 96, 97, 98, 99,
     100, 101, 102, 103, 104, 105, 106, 107, 108, 109, 110, 111, 112, 113, 114, 115, 116, 117, 118, 119,
     120, 121, 122, 123, 124, 125, 126, 127, 128, 129, 130, 131, 132, 133, 134, 135, 136, 137, 138, 139,
     140, 141, 142, 143, 144, 144, 145, 146, 147, 148, 149, 150, 151, 152, 153, 154, 155, 156, 157, 158,
     159, 160, 161, 162, 163, 164, 165, 166, 167, 168, 169, 170, 171, 172, 173, 174, 175, 176, 177, 178,
     179, 180, 181, 182, 183, 184, 185, 186, 187, 188, 189, 190, 191, 192, 193, 194, 195, 196, 197, 198,
     199, 200, 201, 202, 203, 204, 205, 206, 207, 207, 208, 209, 210, 211, 212, 213, 214, 215, 216, 217,
     218, 219, 220, 221, 222, 223, 224, 225, 226, 227, 228, 229, 230, 231, 232, 233, 234, 235, 236, 237,
     238, 239, 240, 241, 242, 243, 244, 244, 245, 246, 247, 248, 249, 250, 251, 252, 253, 254, 255, 256,
     257, 258, 259, 260, 261, 262, 263, 264, 265, 266, 267, 268, 269, 270, 271, 272, 273, 273, 274, 275,
     276, 277, 278, 279, 280, 281, 282, 283, 284, 285, 286, 287, 288, 289, 290, 291, 292, 293, 294, 295,
     296, 296, 297, 298, 299, 300, 301, 302, 303, 304, 305, 306, 307, 308, 309, 310, 311, 312, 313, 314,
     315, 316, 316, 317, 318, 319, 320, 321, 322, 323, 324, 325, 326, 327, 328, 329, 330, 331, 332, 333,
     333, 334, 335, 336, 337, 338, 339, 340, 341, 342, 343, 344, 345, 346, 347, 348, 349, 349, 350, 351,
     352, 353, 354, 355, 356, 357, 358, 359, 360, 361, 362, 363, 363, 364, 365, 366, 367, 368, 369, 370,
     371, 372, 373, 374, 375, 376, 376, 377, 378, 379, 380, 381, 382, 383, 384, 385, 386, 387, 388, 388,
     389, 390, 391, 392, 393, 394, 395, 396, 397, 398, 399, 400, 400, 401, 402, 403, 404, 405, 406, 407,
     408, 409, 410, 410, 411, 412, 413, 414, 415, 416, 417, 418, 419, 420, 421, 421, 422, 423, 424, 425,
     426, 427, 428, 429, 430, 430, 431, 432, 433, 434, 435, 436, 437, 438, 439, 439, 440, 441, 442, 443,
     444, 445, 446, 447, 448, 448, 449, 450, 451, 452, 453, 454, 455, 456, 456, 457, 458, 459, 460, 461,
     462, 463, 464, 464, 465, 466, 467, 468, 469, 470, 471, 472, 472, 473, 474, 475, 476, 477, 478, 479,
     479, 480, 481, 482, 483, 484, 485, 486, 486, 487, 488, 489, 490, 491, 492, 493, 493, 494, 495, 496,
     497, 498, 499, 499, 500, 501, 502, 503, 504, 505, 506, 506, 507, 508, 509, 510, 511, 512, 512, 513,
     514, 515, 516, 517, 518, 518, 519, 520, 521, 522, 523, 524, 524, 525, 526, 527, 528, 529, 529, 530,
     531, 532, 533, 534, 535, 535, 536, 537, 538, 539, 540, 540, 541, 542, 543, 544, 545, 546, 546, 547,
     548, 549, 550, 551, 551, 552, 553, 554, 555, 556, 556, 557, 558, 559, 560, 561, 561, 562, 563, 564,
     565, 565, 566, 567, 568, 569, 570, 570, 571, 572, 573, 574, 575, 575, 576, 577, 578, 579, 579, 580,
     581, 582, 583, 583, 584, 585, 586, 587, 588, 588, 589, 590, 591, 592, 592, 593, 594, 595, 596, 596,
     597, 598, 599, 600, 600, 601, 602, 603, 604, 604, 605, 606, 607, 608, 608, 609, 610, 611, 612, 612,
     613, 614, 615, 615, 616, 617, 618, 619, 619, 620, 621, 622, 623, 623, 624, 625, 626, 626, 627, 628,
     629, 630, 630, 631, 632, 633, 633, 634, 635, 636, 637, 637, 638, 639, 640, 640, 641, 642, 643, 643,
     644, 645, 646, 647, 647, 648, 649, 650, 650, 651, 652, 653, 653, 654, 655, 656, 656, 657, 658, 659,
     659, 660, 661, 662, 662, 663, 664, 665, 665, 666, 667, 668, 668, 669, 670, 671, 671, 672, 673, 674,
     674, 675, 676, 677, 677, 678, 679, 679, 680, 681, 682, 682, 683, 684, 685, 685, 686, 687, 687, 688,
     689, 690, 690, 691, 692, 693, 693, 694, 695, 695, 696, 697, 698, 698, 699, 700, 700, 701, 702, 703,
     703, 704, 705, 705, 706, 707, 708, 708, 709, 710, 710, 711, 712, 712, 713, 714, 715, 715, 716, 717,
     717, 718, 719, 719, 720, 721, 722, 722, 723, 724, 724, 725, 726, 726, 727, 728, 728, 729, 730, 730,
     731, 732, 733, 733, 734, 735, 735, 736, 737, 737, 738, 739, 739, 740, 741, 741, 742, 743, 743, 744,
     745, 745, 746, 747, 747, 748, 749, 749, 750, 751, 751, 752, 753, 753, 754, 755, 755, 756, 757, 757,
     758, 758, 759, 760, 760, 761, 762, 762, 763, 764, 764, 765, 766, 766, 767, 768, 768, 769, 769, 770,
     771, 771, 772, 773, 773, 774, 775, 775, 776, 776, 777, 778, 778, 779, 780, 780, 781, 781, 782, 783,
     783, 784, 785, 785, 786, 786, 787, 788, 788, 789, 790, 790, 791, 791, 792, 793, 793, 794, 794, 795,
     796, 796, 797, 797, 798, 799, 799, 800, 800, 801, 802, 802, 803, 803, 804, 805, 805, 806, 806, 807,
     808, 808, 809, 809, 810, 810, 811, 812, 812, 813, 813, 814, 815, 815, 816, 816, 817, 817, 818, 819,
     819, 820, 820, 821, 821, 822, 823, 823, 824, 824, 825, 825, 826, 827, 827, 828, 828, 829, 829, 830,
     830, 831, 832, 832, 833, 833, 834, 834, 835, 835, 836, 837, 837, 838, 838, 839, 839, 840, 840, 841,
     841, 842, 843, 843, 844, 844, 845, 845, 846, 846, 847, 847, 848, 848, 849, 849, 850, 851, 851, 852,
     852, 853, 853, 854, 854, 855, 855, 856, 856, 857, 857, 858, 858, 859, 859, 860, 860, 861, 861, 862,
     862, 863, 863, 864, 864, 865, 865, 866, 866, 867, 867, 868, 868, 869, 869, 870, 870, 871, 871, 872,
     872, 873, 873, 874, 874, 875, 875, 876, 876, 877, 877, 878, 878, 879, 879, 880, 880, 881, 881, 881,
     882, 882, 883, 883, 884, 884, 885, 885, 886, 886, 887, 887, 888, 888, 888, 889, 889, 890, 890, 891,
     891, 892, 892, 893, 893, 893, 894, 894, 895, 895, 896, 896, 897, 897, 897, 898, 898, 899, 899, 900,
     900, 901, 901, 901, 902, 902, 903, 903, 904, 904, 904, 905, 905, 906, 906, 907, 907, 907, 908, 908,
     909, 909, 909, 910, 910, 911, 911, 912, 912, 912, 913, 913, 914, 914, 914, 915, 915, 916, 916, 916,
     917, 917, 918, 918, 918, 919, 919, 920, 920, 920, 921, 921, 922, 922, 922, 923, 923, 923, 924, 924,
     925, 925, 925, 926, 926, 926, 927, 927, 928, 928, 928, 929, 929, 929, 930, 930, 931, 931, 931, 932,
     932, 932, 933, 933, 933, 934, 934, 935, 935, 935, 936, 936, 936, 937, 937, 937, 938, 938, 938, 939,
     939, 939, 940, 940, 940, 941, 941, 941, 942, 942, 942, 943, 943, 943, 944, 944, 944, 945, 945, 945,
     946, 946, 946, 947, 947, 947, 948, 948, 948, 949, 949, 949, 950, 950, 950, 951, 951, 951, 951, 952,
     952, 952, 953, 953, 953, 954, 954, 954, 955, 955, 955, 955, 956, 956, 956, 957, 957, 957, 957, 958,
     958, 958, 959, 959, 959, 959, 960, 960, 960, 961, 961, 961, 961, 962, 962, 962, 962, 963, 963, 963,
     964, 964, 964, 964, 965, 965, 965, 965, 966, 966, 966, 966, 967, 967, 967, 967, 968, 968, 968, 968,
     969, 969, 969, 969, 970, 970, 970, 970, 971, 971, 971, 971, 972, 972, 972, 972, 973, 973, 973, 973,
     973, 974, 974, 974, 974, 975, 975, 975, 975, 976, 976, 976, 976, 976, 977, 977, 977, 977, 977, 978,
     978, 978, 978, 978, 979, 979, 979, 979, 980, 980, 980, 980, 980, 981, 981, 981, 981, 981, 981, 982,
     982, 982, 982, 982, 983, 983, 983, 983, 983, 984, 984, 984, 984, 984, 984, 985, 985, 985, 985, 985,
     985, 986, 986, 986, 986, 986, 986, 987, 987, 987, 987, 987, 987, 988, 988, 988, 988, 988, 988, 989,
     989, 989, 989, 989, 989, 989, 990, 990, 990, 990, 990, 990, 990, 991, 991, 991, 991, 991, 991, 991,
     991, 992, 992, 992, 992, 992, 992, 992, 992, 993, 993, 993, 993, 993, 993, 993, 993, 994, 994, 994,
     994, 994, 994, 994, 994, 994, 995, 995, 995, 995, 995, 995, 995, 995, 995, 995, 996, 996, 996, 996,
     996, 996, 996, 996, 996, 996, 996, 996, 997, 997, 997, 997, 997, 997, 997, 997, 997, 997, 997, 997,
     997, 998, 998, 998, 998, 998, 998, 998, 998, 998, 998, 998, 998, 998, 998, 998, 998, 999, 999, 999,
     999, 999, 999, 999, 999, 999, 999, 999, 999, 999, 999, 999, 999, 999, 999, 999, 999, 999, 999, 999,
     1000, 1000, 1000, 1000, 1000, 1000, 1000, 1000, 1000, 1000, 1000, 1000, 1000, 1000, 1000, 1000, 1000, 1000, 1000, 1000,
     1000, 1000, 1000, 1000, 1000, 1000, 1000, 1000, 1000, 1000, 1000, 1000
  >>

\* np.sin, in units of 1/ONE, of an angle in milliradians
Sin(x) ==
    LET m == x % (2 * Pi)
    IN  IF m <= HalfPi THEN 10 * SinTable[m + 1]
        ELSE IF m <= Pi THEN 10 * SinTable[Pi - m + 1]
        ELSE IF m <= Pi + HalfPi THEN -10 * SinTable[m - Pi + 1]
        ELSE -10 * SinTable[2 * Pi - m + 1]

\* np.cos, in units of 1/ONE, of an angle in milliradians
Cos(x) == Sin(HalfPi - x)

RECURSIVE AtanSearch(_, _, _, _)
AtanSearch(num, den, lo, hi) ==
    IF lo >= hi THEN lo
    ELSE LET mid == (lo + hi + 1) \div 2
         IN  IF SinTable[mid + 1] * den <= num * SinTable[HalfPi - mid + 1]
             THEN AtanSearch(num, den, mid, hi)
             ELSE AtanSearch(num, den, lo, mid - 1)

\* np.arctan(num / den) for den # 0, in milliradians, truncated toward zero:
\* the result lies strictly between -pi/2 and pi/2
ArcTan(num, den) ==
    Sgn(num) * Sgn(den) * AtanSearch(Abs(num), Abs(den), 0, HalfPi - 1)

----------------------------------------------------------------------------
(* Extended reals: numpy's float64 results of a division by zero *)

Fin(v) == [kind |-> "fin", v |-> v]

NaN == [kind |-> "nan", v |-> 0]

Inf(s) == [kind |-> "inf", v |-> s]

----------------------------------------------------------------------------
(* get_cosine_factor_original *)

\* bound_angle = bound_angle*np.pi/180.0
Radians(deg) == RDiv(deg * Pi, 180)

\* q = np.pi/bound_angle (bound_angle # 0; see CallDivZero for bound_angle = 0)
Q(bound_angle) == Div(Pi, bound_angle)

\* gamma = (np.pi/2.0) - bound_angle
Gamma(bound_angle) == HalfPi - bound_angle

\* Variant: a turbine level with turbine i counted as downstream of it
DownstreamOrLevel(Xi, Xj) == Xi <= Xj

\* if X[i] < X[j]
Downstream(Xi, Xj) == Xi < Xj

\* Variant: the fulcrum distance without the relaxation factor
ZUnrelaxed(R0, bound_angle, relaxationFactor) ==
    LET num == R0 * Sin(Gamma(bound_angle))
        den == Sin(bound_angle)
    IN  IF den # 0 THEN Fin(RDiv(num, den))
        ELSE IF num = 0 THEN NaN ELSE Inf(Sgn(num))

\* z = (relaxationFactor * R0 * np.sin(gamma))/np.sin(bound_angle), a length;
\* with np.sin(bound_angle) = 0 numpy yields inf, or nan for 0/0
Z(R0, bound_angle, relaxationFactor) ==
    LET num == Mul(relaxationFactor, R0) * Sin(Gamma(bound_angle))
        den == Sin(bound_angle)
    IN  IF den # 0 THEN Fin(RDiv(num, den))
        ELSE IF num = 0 THEN NaN ELSE Inf(Sgn(num))

\* theta = np.arctan((Y[j] - Y[i]) / (X[j] - X[i] + z))
Theta(dy, dx, z) ==
    IF z.kind = "nan" THEN NaN
    ELSE IF z.kind = "inf" THEN Fin(0)
    ELSE LET den == dx + z.v
         IN  IF den # 0 THEN Fin(ArcTan(dy, den))
             ELSE IF dy = 0 THEN NaN ELSE Fin(Sgn(dy) * HalfPi)

\* Variant: the cone test on the magnitudes of both angles
InConeAbs(theta, bound_angle) ==
    /\ theta.kind = "fin"
    /\ Abs(theta.v) < Abs(bound_angle)

\* if -bound_angle < theta < bound_angle (false for nan)
InCone(theta, bound_angle) ==
    /\ theta.kind = "fin"
    /\ -bound_angle < theta.v
    /\ theta.v < bound_angle

\* (1. + np.cos(q*theta))/2.
CosineFactor(q, theta) == RDiv(ONE + Cos(Mul(q, theta)), 2)

\* theta of the pair (i, j), as the loop body computes it
PairTheta(X, Y, R0, bound_angle, relaxationFactor, i, j) ==
    Theta(Y[j] - Y[i], X[j] - X[i], Z(R0, bound_angle, relaxationFactor))

\* One pass of the loop body for the pair (i, j): the new value of f_theta[i][j]
PairFactor(old, X, Y, R0, bound_angle, relaxationFactor, i, j) ==
    IF Downstream(X[i], X[j])
    THEN LET theta == PairTheta(X, Y, R0, bound_angle, relaxationFactor, i, j)
         IN  IF InCone(theta, bound_angle)
             THEN CosineFactor(Q(bound_angle), theta.v)
             ELSE old
    ELSE old

----------------------------------------------------------------------------
(* Deficit law and superposition of JensenCosine.solve_nonlinear *)

\* np.zeros(n)
Zeros(n) == [k \in 1..n |-> 0]

\* r = 0.5*params['rotorDiameter']
Radius(rotorDiameter) == [k \in DOMAIN rotorDiameter |-> RDiv(rotorDiameter[k], 2)]

\* if dx > 0.0
IsUpstream(dx) == dx > 0

\* Variant: the deficit without the factor 2.0*a[j]
DeficitNoInduction(aj, fji, rj, alpha, dx) ==
    LET ratio == RDiv(fji * rj, rj + Mul(alpha, dx))
    IN  Mul(ratio, ratio)

\* loss[j] = 2.0*a[j]*(f_theta[j][i]*r[j]/(r[j]+alpha*dx))**2
Deficit(aj, fji, rj, alpha, dx) ==
    LET ratio == RDiv(fji * rj, rj + Mul(alpha, dx))
    IN  Mul(2 * aj, Mul(ratio, ratio))

\* loss[j] = loss[j]**2, kept in units of 1/ONE^2
Square(l) == l * l

\* Variant: loss is not reset between target turbines
KeepLoss(loss) == loss

\* loss[:] = 0.0
ClearLoss(loss) == [k \in DOMAIN loss |-> 0]

RECURSIVE SumUpTo(_, _)
SumUpTo(v, k) == IF k = 0 THEN 0 ELSE v[k] + SumUpTo(v, k - 1)

\* np.sum(loss)
Sum(v) == SumUpTo(v, Len(v))

\* totalLoss = np.sqrt(np.sum(loss))
TotalLoss(loss) == Sqrt(Sum(loss))

\* Variant: the hub velocity clamped at zero
HubVelocityClamped(totalLoss, windSpeed) ==
    IF totalLoss > ONE THEN 0 ELSE Mul(ONE - totalLoss, windSpeed)

\* hubVelocity[i] = (1.-totalLoss)*windSpeed
HubVelocity(totalLoss, windSpeed) == Mul(ONE - totalLoss, windSpeed)

\* Variant: the component keeps one array and hands it out on every call
ReuseArray(h) == 1

\* np.zeros(nTurbines) allocates a new array: its address in the heap
NewArray(h) == Len(h) + 1

\* The heap with the array arr at address addr
Allocate(h, addr, arr) ==
    IF addr > Len(h) THEN Append(h, arr) ELSE [h EXCEPT ![addr] = arr]

----------------------------------------------------------------------------
(* _jensen2.jensenwake: the compiled kernel JensenCosineFortran calls with     *)
(* (turbineXw, turbineYw, rotorDiameter, relaxationFactor) only.  Its source   *)
(* is not part of the module; it is taken to be the cosine law of the          *)
(* specification with the component's default alpha = 0.1, axialInduction =    *)
(* 1/3 and spread angle of 20 degrees.                                         *)

RECURSIVE WakeLossSum(_, _, _, _, _)
WakeLossSum(X, Y, D, xi, t) ==
    IF t[2] = 0 THEN 0
    ELSE LET i == t[1]
             k == t[2]
             dx == X[i] - X[k]
             f == PairFactor(0, X, Y, Radius(D)[1], Radians(20), xi, k, i)
             c == IF dx > 0
                  THEN Square(Deficit(RDiv(ONE, 3), f, Radius(D)[k], RDiv(ONE, 10), dx))
                  ELSE 0
         IN  c + WakeLossSum(X, Y, D, xi, <<i, k - 1>>)

jensenwake(X, Y, D, xi) ==
    [i \in 1..Len(X) |-> Sqrt(WakeLossSum(X, Y, D, xi, <<i, Len(X)>>))]

----------------------------------------------------------------------------
(* Input sets *)

MaxTurbines == 3

MaxCalls == 3

XVals == {Metres(0), Metres(50), Metres(500)}

YVals == {Metres(0), Metres(60)}

\* rotorDiameter: 80 m everywhere, or the default 126.4 m behind turbine 0
DiameterProfiles(n) ==
    { [k \in 1..n |-> Metres(80)],
      [k \in 1..n |-> IF k = 1 THEN Metres(80) ELSE 1264] }

\* axialInduction: 1/3 everywhere, or 0.9 at every other turbine
InductionProfiles(n) ==
    { [k \in 1..n |-> RDiv(ONE, 3)],
      [k \in 1..n |-> IF k % 2 = 1 THEN RDiv(9 * ONE, 10) ELSE RDiv(ONE, 3)] }

Alphas == {RDiv(ONE, 10), RDiv(ONE, 5)}

ValidAngles == {20, 45}

InvalidAngles == {-20, 0, 90, 100}

RelaxationFactors == {0, ONE, 2 * ONE}

WindSpeeds == {8 * ONE}

Params(X, Y, D, a, alpha, angle, xi, V) ==
    [turbineXw |-> X, turbineYw |-> Y, rotorDiameter |-> D, axialInduction |-> a,
     alpha |-> alpha, spread_angle |-> angle, relaxationFactor |-> xi,
     wind_speed |-> V]

Layouts(n) == [1..n -> XVals] \X [1..n -> YVals]

Uniform(n, v) == [k \in 1..n |-> v]

\* Inputs that vary the wake geometry: layout, bound angle, relaxation factor
GeometryInputs(n) ==
    { Params(xy[1], xy[2], Uniform(n, Metres(80)), Uniform(n, RDiv(ONE, 3)),
             RDiv(ONE, 10), angle, xi, V) :
        xy \in Layouts(n), angle \in ValidAngles, xi \in RelaxationFactors,
        V \in WindSpeeds }

\* Inputs that vary the deficit law: layout, diameters, induction, alpha
DeficitInputs(n) ==
    { Params(xy[1], xy[2], D, a, alpha, 20, ONE, V) :
        xy \in Layouts(n), D \in DiameterProfiles(n), a \in InductionProfiles(n),
        alpha \in Alphas, V \in WindSpeeds }

\* Inputs with a bound angle outside (0, 90) degrees
InvalidAngleInputs(n) ==
    { Params(xy[1], xy[2], Uniform(n, Metres(80)), Uniform(n, RDiv(ONE, 3)),
             RDiv(ONE, 10), angle, ONE, V) :
        xy \in Layouts(n), angle \in InvalidAngles, V \in WindSpeeds }

\* Inputs of one evaluation of the component c
ParamSet(c) ==
    IF c.cls = "JensenCosine" /\ c.radius_multiplier = ONE
    THEN GeometryInputs(c.nTurbines) \cup DeficitInputs(c.nTurbines)
           \cup InvalidAngleInputs(c.nTurbines)
    ELSE IF c.cls = "JensenCosine"
    THEN GeometryInputs(c.nTurbines)
    ELSE DeficitInputs(c.nTurbines)

\* Inputs of the evaluations of a sequence of calls: the row of turbines in
\* index order or against it, under two relaxation factors
SeqParamSet(n) ==
    { Params(X, [k \in 1..n |-> Metres(60 * (k % 2))], Uniform(n, Metres(80)),
             Uniform(n, RDiv(ONE, 3)), RDiv(ONE, 10), 20, xi, 8 * ONE) :
        X \in { [k \in 1..n |-> Metres(50 * k)],
                [k \in 1..n |-> Metres(50 * (n + 1 - k))] },
        xi \in {ONE, 2 * ONE} }

Variants ==
    {"TopHat", "Tophat", "Cosine", "CosineFortran", "CosineNoOverlap_1R",
     "CosineNoOverlap_2R", "Conference", "CosineYaw_1R", "CosineYaw_2R",
     "CosineYawIntegral", "CosineYaw", "Original"}

\* A str object: its text, and whether it is the interned object of a literal
Str(s, interned) == [s |-> s, interned |-> interned]

\* model_options: None, or a dict with or without the keys 'variant' and
\* 'radius multiplier'
OptionValues ==
    {[kind |-> "None"], [kind |-> "dict", d |-> <<>>]}
    \cup { [kind |-> "dict", d |-> [variant |-> Str(v, b)]] :
             v \in Variants, b \in BOOLEAN }
    \cup { [kind |-> "dict", d |-> [variant |-> Str(v, TRUE), radius_multiplier |-> m]] :
             v \in {"Cosine"}, m \in {2} }

----------------------------------------------------------------------------
(* State *)

VARIABLES
    pc,           \* position: "new", "idle", "factor", "reset", "inner", "total",
                  \*           "fortran", "store", "raised"
    components,   \* the Jensen group's components, in order of self.add
    self,         \* fields of the component f_1
    params,       \* the params of the call in progress
    given,        \* the params as the caller passed them
    unknowns,     \* unknowns['wtVelocity%i' % direction_id]
    f_theta,      \* the matrix get_cosine_factor_original fills and returns
    i, j,         \* loop indices (of get_cosine_factor_original while pc = "factor")
    loss,         \* the local array loss
    hubVelocity,  \* the local hubVelocity: the address of an array in heap
    heap,         \* the arrays allocated for hubVelocity
    log,          \* completed calls: params, address and value of the result
    raised,       \* the exception a call ended with, or "none"
    model_options \* the model_options argument of Jensen.__init__

vars == <<pc, components, self, params, given, unknowns, f_theta, i, j, loss,
          hubVelocity, heap, log, raised, model_options>>

NoParams == Params(<<>>, <<>>, <<>>, <<>>, 0, 0, 0, 0)

Init ==
    /\ pc = "new"
    /\ components = <<>>
    /\ self = [cls |-> "none", nTurbines |-> 0, direction_id |-> 0,
               radius_multiplier |-> ONE]
    /\ params = NoParams
    /\ given = NoParams
    /\ unknowns = <<>>
    /\ f_theta = <<>>
    /\ i = 0
    /\ j = 0
    /\ loss = <<>>
    /\ hubVelocity = 0
    /\ heap = <<>>
    /\ log = <<>>
    /\ raised = "none"
    /\ model_options = [kind |-> "None"]

----------------------------------------------------------------------------
(* Jensen.__init__ *)

\* a is b, for a str object a and a literal b
StrIs(a, lit) == a.s = lit /\ a.interned

\* try: model_options['variant'] except: model_options = {'variant': 'Tophat'}
DefaultOptions(opts) ==
    IF opts.kind = "dict" /\ "variant" \in DOMAIN opts.d
    THEN opts.d
    ELSE [variant |-> Str("Tophat", TRUE)]

\* The class the if/elif chain passes to self.add('f_1', ...), or "none"
SelectedClass(variant) ==
    IF StrIs(variant, "TopHat") THEN "JensenTopHat"
    ELSE IF StrIs(variant, "Cosine") THEN "JensenCosine"
    ELSE IF StrIs(variant, "CosineFortran") THEN "JensenCosineFortran"
    ELSE IF StrIs(variant, "CosineNoOverlap_1R") \/ StrIs(variant, "CosineNoOverlap_2R")
         THEN "effectiveVelocityCosineNoOverlap"
    ELSE IF StrIs(variant, "Conference") THEN "effectiveVelocityConference"
    ELSE IF StrIs(variant, "CosineYaw_1R") \/ StrIs(variant, "CosineYaw_2R")
         THEN "JensenCosineYaw"
    ELSE IF StrIs(variant, "CosineYawIntegral") THEN "JensenCosineYawIntegral"
    ELSE IF StrIs(variant, "CosineYaw") THEN "JensenCosineYaw"
    ELSE "none"

\* try: self.radius_multiplier = options['radius multiplier'] except: 1.0
RadiusMultiplier(options) ==
    IF "radius_multiplier" \in DOMAIN options
    THEN options.radius_multiplier * ONE
    ELSE ONE

WakeClasses == {"JensenCosine", "JensenCosineFortran"}

Construct(nTurbs, direction_id, opts) ==
    /\ pc = "new"
    /\ model_options' = opts
    /\ LET options == DefaultOptions(opts)
           cls == SelectedClass(options.variant)
       IN  /\ components' = IF cls = "none" THEN components
                            ELSE Append(components, [name |-> "f_1", cls |-> cls])
           /\ self' = [cls |-> cls, nTurbines |-> nTurbs, direction_id |-> direction_id,
                       radius_multiplier |->
                           IF cls \in WakeClasses THEN RadiusMultiplier(options)
                           ELSE ONE]
           /\ unknowns' = IF cls = "none" THEN unknowns ELSE Zeros(nTurbs)
    /\ pc' = "idle"
    /\ UNCHANGED <<params, given, f_theta, i, j, loss, hubVelocity, heap, log, raised>>

----------------------------------------------------------------------------
(* JensenCosine.solve_nonlinear and JensenCosineFortran.solve_nonlinear *)

\* R0=r[0]*self.radius_multiplier
R0 == Mul(self.radius_multiplier, Radius(params.rotorDiameter)[1])

bound_angle == Radians(params.spread_angle)

\* Entry of solve_nonlinear up to the loop of get_cosine_factor_original
Call(p) ==
    /\ pc = "idle"
    /\ self.cls \in WakeClasses
    /\ params' = p
    /\ given' = p
    /\ loss' = Zeros(self.nTurbines)
    /\ hubVelocity' = NewArray(heap)
    /\ heap' = Allocate(heap, NewArray(heap), Zeros(self.nTurbines))
    /\ f_theta' = [a \in 1..self.nTurbines |-> Zeros(self.nTurbines)]
    /\ i' = 1
    /\ j' = 1
    /\ pc' = "factor"
    /\ UNCHANGED <<components, self, unknowns, log, raised, model_options>>

\* q = np.pi/bound_angle with bound_angle a Python float 0.0 raises
\* ZeroDivisionError; with a numpy float64 it is inf and Call goes on
CallDivZero(p) ==
    /\ pc = "idle"
    /\ self.cls \in WakeClasses
    /\ Radians(p.spread_angle) = 0
    /\ params' = p
    /\ given' = p
    /\ loss' = Zeros(self.nTurbines)
    /\ hubVelocity' = NewArray(heap)
    /\ heap' = Allocate(heap, NewArray(heap), Zeros(self.nTurbines))
    /\ f_theta' = [a \in 1..self.nTurbines |-> Zeros(self.nTurbines)]
    /\ raised' = "ZeroDivisionError"
    /\ pc' = "raised"
    /\ UNCHANGED <<components, self, unknowns, i, j, log, model_options>>

\* One pair (i, j) of the loops of get_cosine_factor_original; after the last
\* pair the function returns into solve_nonlinear
FactorStep ==
    /\ pc = "factor"
    /\ f_theta' = [f_theta EXCEPT ![i][j] =
                      PairFactor(@, params.turbineXw, params.turbineYw, R0,
                                 bound_angle, params.relaxationFactor, i, j)]
    /\ IF j < self.nTurbines
       THEN /\ j' = j + 1
            /\ UNCHANGED <<i, pc>>
       ELSE IF i < self.nTurbines
       THEN /\ i' = i + 1
            /\ j' = 1
            /\ UNCHANGED pc
       ELSE /\ i' = 1
            /\ j' = 1
            /\ pc' = IF self.cls = "JensenCosine" THEN "reset" ELSE "fortran"
    /\ UNCHANGED <<components, self, params, given, unknowns, loss, hubVelocity,
                   heap, log, raised, model_options>>

\* for i in range(nTurbines): loss[:] = 0.0
ResetLoss ==
    /\ pc = "reset"
    /\ loss' = ClearLoss(loss)
    /\ j' = 1
    /\ pc' = "inner"
    /\ UNCHANGED <<components, self, params, given, unknowns, f_theta, i,
                   hubVelocity, heap, log, raised, model_options>>

\* for j in range(nTurbines): the deficit of turbine j on turbine i
InnerStep ==
    /\ pc = "inner"
    /\ LET dx == params.turbineXw[i] - params.turbineXw[j]
       IN  loss' = IF IsUpstream(dx)
                   THEN [loss EXCEPT ![j] =
                            Square(Deficit(params.axialInduction[j], f_theta[j][i],
                                           Radius(params.rotorDiameter)[j],
                                           params.alpha, dx))]
                   ELSE loss
    /\ IF j < self.nTurbines
       THEN j' = j + 1 /\ UNCHANGED pc
       ELSE j' = j /\ pc' = "total"
    /\ UNCHANGED <<components, self, params, given, unknowns, f_theta, i,
                   hubVelocity, heap, log, raised, model_options>>

\* totalLoss = np.sqrt(np.sum(loss)); hubVelocity[i] = (1.-totalLoss)*windSpeed
Total ==
    /\ pc = "total"
    /\ heap' = [heap EXCEPT ![hubVelocity][i] =
                   HubVelocity(TotalLoss(loss), params.wind_speed)]
    /\ IF i < self.nTurbines
       THEN i' = i + 1 /\ pc' = "reset"
       ELSE i' = i /\ pc' = "store"
    /\ UNCHANGED <<components, self, params, given, unknowns, f_theta, j, loss,
                   hubVelocity, log, raised, model_options>>

\* unknowns['wtVelocity%i' % direction_id] = hubVelocity
Store ==
    /\ pc = "store"
    /\ unknowns' = heap[hubVelocity]
    /\ log' = Append(log, [given |-> given, params |-> params,
                           out |-> hubVelocity, value |-> heap[hubVelocity],
                           f |-> f_theta])
    /\ pc' = "idle"
    /\ UNCHANGED <<components, self, params, given, f_theta, i, j, loss,
                   hubVelocity, heap, raised, model_options>>

\* loss = _jensen2.jensenwake(turbineXw, turbineYw, rotorDiameter, relaxationFactor)
\* hubVelocity = (1.0 - loss) * windSpeed
FortranWake ==
    /\ pc = "fortran"
    /\ loss' = jensenwake(params.turbineXw, params.turbineYw, params.rotorDiameter,
                          params.relaxationFactor)
    /\ hubVelocity' = NewArray(heap)
    /\ heap' = Allocate(heap, NewArray(heap),
                        [k \in 1..self.nTurbines |->
                            HubVelocity(loss'[k], params.wind_speed)])
    /\ pc' = "store"
    /\ UNCHANGED <<components, self, params, given, unknowns, f_theta, i, j, log,
                   raised, model_options>>

FirstCall ==
    /\ pc = "idle"
    /\ Len(log) = 0
    /\ \E p \in ParamSet(self) : Call(p)

FirstCallDivZero ==
    /\ pc = "idle"
    /\ Len(log) = 0
    /\ \E p \in ParamSet(self) : CallDivZero(p)

Build ==
    \E n \in 1..MaxTurbines, o \in OptionValues : Construct(n, 0, o)

\* One evaluation of the component, on any input of ParamSet
Next ==
    \/ Build
    \/ FirstCall
    \/ FirstCallDivZero
    \/ FactorStep
    \/ ResetLoss
    \/ InnerStep
    \/ Total
    \/ FortranWake
    \/ Store

Spec == Init /\ [][Next]_vars

RepeatedCall ==
    /\ pc = "idle"
    /\ Len(log) < MaxCalls
    /\ \E p \in SeqParamSet(self.nTurbines) : Call(p)

\* A sequence of up to MaxCalls evaluations on the same component
NextCalls ==
    \/ Build
    \/ RepeatedCall
    \/ FactorStep
    \/ ResetLoss
    \/ InnerStep
    \/ Total
    \/ FortranWake
    \/ Store

SpecCalls == Init /\ [][NextCalls]_vars

----------------------------------------------------------------------------
(* Properties *)

N == self.nTurbines

ValidAngle(deg) == 0 < deg /\ deg < 90

InCall == params # NoParams

\* get_cosine_factor_original has just returned f_theta
FactorDone == InCall /\ ((pc = "reset" /\ i = 1) \/ pc = "fortran")

\* A call of the component has completed and nothing else has started
Completed == pc = "idle" /\ Len(log) > 0

\* No turbine lies upstream of turbine t
NoUpstream(p, t) == \A k \in DOMAIN p.turbineXw : p.turbineXw[k] >= p.turbineXw[t]

\* C1: for a bound angle in (0, 90) degrees and relaxationFactor >= 0, every entry
\* of f_theta, while get_cosine_factor_original fills it and when it returns it,
\* lies in [0, 1], is positive only for X[a] < X[b] with |theta| below the bound
\* angle, and is 0 whenever X[a] >= X[b] (the diagonal included).
C1_FactorRange ==
    ((pc = "factor" \/ FactorDone) /\ ValidAngle(params.spread_angle)
        /\ params.relaxationFactor >= 0) =>
        \A a \in 1..N, b \in 1..N :
            /\ 0 <= f_theta[a][b]
            /\ f_theta[a][b] <= ONE
            /\ f_theta[a][b] > 0 =>
                 /\ params.turbineXw[a] < params.turbineXw[b]
                 /\ LET theta == PairTheta(params.turbineXw, params.turbineYw, R0,
                                           bound_angle, params.relaxationFactor, a, b)
                    IN  theta.kind = "fin" /\ Abs(theta.v) < bound_angle
            /\ params.turbineXw[a] >= params.turbineXw[b] => f_theta[a][b] = 0

\* The matrix is complete and holds a partial factor, a downstream pair outside
\* the cone and a pair in the wrong order
C1_Witness ==
    /\ FactorDone
    /\ ValidAngle(params.spread_angle)
    /\ \E a \in 1..N, b \in 1..N : 0 < f_theta[a][b] /\ f_theta[a][b] < ONE
    /\ \E a \in 1..N, b \in 1..N :
          params.turbineXw[a] < params.turbineXw[b] /\ f_theta[a][b] = 0
    /\ \E a \in 1..N, b \in 1..N :
          params.turbineXw[a] > params.turbineXw[b] /\ f_theta[a][b] = 0

\* C2: a turbine of the Cosine variant with no turbine upstream of it gets exactly
\* the freestream wind speed, whatever the other turbines and the index order.
C2_FreestreamWithoutUpstream ==
    (Completed /\ self.cls = "JensenCosine") =>
        \A t \in 1..N : NoUpstream(params, t) => unknowns[t] = params.wind_speed

\* The last turbine by index is the most upstream one and the others are waked
C2_Witness ==
    /\ Completed
    /\ self.cls = "JensenCosine"
    /\ N = 3
    /\ NoUpstream(params, 3)
    /\ unknowns[3] = params.wind_speed
    /\ unknowns[1] < params.wind_speed
    /\ unknowns[2] < params.wind_speed

\* The entry loss[k] the deficit law gives for the target turbine t: the doubly
\* squared deficit of the pair (k, t) when turbine k is strictly upstream, else 0
Expected(p, f, k, t) ==
    IF p.turbineXw[k] < p.turbineXw[t]
    THEN Square(Deficit(p.axialInduction[k], f[k][t], Radius(p.rotorDiameter)[k],
                        p.alpha, p.turbineXw[t] - p.turbineXw[k]))
    ELSE 0

RECURSIVE ExpectedSum(_, _, _, _)
ExpectedSum(p, f, k, t) ==
    IF k = 0 THEN 0 ELSE Expected(p, f, k, t) + ExpectedSum(p, f, k - 1, t)

\* sqrt of the sum of the expected entries for the target turbine t
ExpectedTotal(p, f, t) == Sqrt(ExpectedSum(p, f, Len(p.turbineXw), t))

\* Scenario A: X=[0,500], Y=[0,0], rotorDiameter=80, alpha=0.1, 20 degrees,
\* axialInduction=1/3, windSpeed=8, relaxationFactor=1.0
ScenarioA ==
    Params(<<Metres(0), Metres(500)>>, <<Metres(0), Metres(0)>>,
           <<Metres(80), Metres(80)>>, <<RDiv(ONE, 3), RDiv(ONE, 3)>>,
           RDiv(ONE, 10), 20, ONE, 8 * ONE)

AtScenarioA == pc = "store" /\ self.cls = "JensenCosine" /\ params = ScenarioA

\* C3 as stated: in scenario A velocity[0] = 8.0, f[0][1] = 1.0, the total loss of
\* turbine 1 is about 0.19753 and velocity[1] is 6.420 m/s within 1e-3.
C3_ScenarioA_Stated ==
    AtScenarioA =>
        /\ heap[hubVelocity][1] = 8 * ONE
        /\ f_theta[1][2] = ONE
        /\ Abs(TotalLoss(loss) - 1975) <= 5
        /\ Abs(heap[hubVelocity][2] - 64200) <= 10

\* C3 amended: in scenario A velocity[0] = 8.0, f[0][1] = 1.0, the total loss of
\* turbine 1 is 2*(1/3)*(40/90)^2, about 0.13169, and velocity[1] is 6.9465 m/s
\* within 1e-3.
C3_ScenarioA ==
    AtScenarioA =>
        /\ heap[hubVelocity][1] = 8 * ONE
        /\ f_theta[1][2] = ONE
        /\ Abs(TotalLoss(loss) - 1317) <= 5
        /\ Abs(heap[hubVelocity][2] - 69465) <= 10

\* Scenario A has been evaluated and turbine 1 is slowed down
C3_Witness == AtScenarioA /\ heap[hubVelocity][2] < 8 * ONE

AllZero(f) == \A a \in DOMAIN f : \A b \in DOMAIN f[a] : f[a][b] = 0

\* C4 as stated: an evaluation with a bound angle outside (0, 90) degrees fails
\* with a DomainError before any pair geometry is computed and gives no output.
C4_DomainError_Stated ==
    (InCall /\ ~ValidAngle(params.spread_angle)) =>
        (pc = "raised" /\ raised = "DomainError")

\* C4 amended: a bound angle outside (0, 90) degrees is not validated: no
\* DomainError is raised, the pair loop runs and a velocity vector of n entries is
\* stored; only q = pi/0 with a plain Python float raises (ZeroDivisionError).
\* For a bound angle <= 0 the cone test never passes: f stays 0 and the Cosine
\* variant returns the freestream speed for every turbine.
C4_NoValidation ==
    (InCall /\ ~ValidAngle(params.spread_angle)) =>
        /\ raised \in {"none", "ZeroDivisionError"}
        /\ raised = "ZeroDivisionError" => (params.spread_angle = 0 /\ pc = "raised")
        /\ params.spread_angle # 0 => pc # "raised"
        /\ params.spread_angle <= 0 => AllZero(f_theta)
        /\ Completed => (Len(unknowns) = N /\ unknowns = log[Len(log)].value)
        /\ (Completed /\ self.cls = "JensenCosine" /\ params.spread_angle <= 0) =>
               \A t \in 1..N : unknowns[t] = params.wind_speed

\* A bound angle of 100 degrees went through: wakes were computed and stored
C4_Witness ==
    /\ Completed
    /\ self.cls = "JensenCosine"
    /\ params.spread_angle = 100
    /\ \E t \in 1..N : unknowns[t] < params.wind_speed

\* The velocity vector of the Cosine variant for the params p and the matrix f
CosineVelocity(p, f) ==
    [t \in 1..Len(p.turbineXw) |-> Mul(ONE - ExpectedTotal(p, f, t), p.wind_speed)]

\* C5: JensenCosineFortran.solve_nonlinear yields the velocity vector of
\* JensenCosine.solve_nonlinear for every input.
C5_FortranEqualsCosine ==
    (Completed /\ self.cls = "JensenCosineFortran") =>
        unknowns = CosineVelocity(params, f_theta)

LargerFactors == {xi \in RelaxationFactors : xi > params.relaxationFactor}

ThetaAt(xi, a, b) ==
    PairTheta(params.turbineXw, params.turbineYw, R0, bound_angle, xi, a, b).v

FactorAt(xi, a, b) ==
    PairFactor(0, params.turbineXw, params.turbineYw, R0, bound_angle, xi, a, b)

DownstreamPairs ==
    {ab \in (1..N) \X (1..N) : params.turbineXw[ab[2]] > params.turbineXw[ab[1]]}

\* C6 as stated: for xi1 < xi2 and a pair with X[j] > X[i], z(xi2) > z(xi1),
\* |theta| under xi2 is strictly smaller than under xi1, and f under xi2 is at
\* least f under xi1.
C6_Monotone_Stated ==
    (FactorDone /\ ValidAngle(params.spread_angle) /\ R0 > 0) =>
        \A xi2 \in LargerFactors, ab \in DownstreamPairs :
            /\ Z(R0, bound_angle, xi2).v > Z(R0, bound_angle, params.relaxationFactor).v
            /\ Abs(ThetaAt(xi2, ab[1], ab[2]))
                 < Abs(ThetaAt(params.relaxationFactor, ab[1], ab[2]))
            /\ FactorAt(xi2, ab[1], ab[2]) >= f_theta[ab[1]][ab[2]]

\* C6 amended: for xi1 < xi2 and a pair with X[j] > X[i], z(xi2) > z(xi1), |theta|
\* under xi2 is strictly smaller than under xi1 when Y[j] # Y[i] and is 0 under
\* both when Y[j] = Y[i], and f under xi2 is at least f under xi1.
C6_Monotone ==
    (FactorDone /\ ValidAngle(params.spread_angle) /\ R0 > 0) =>
        \A xi2 \in LargerFactors, ab \in DownstreamPairs :
            LET t1 == ThetaAt(params.relaxationFactor, ab[1], ab[2])
                t2 == ThetaAt(xi2, ab[1], ab[2])
            IN  /\ Z(R0, bound_angle, xi2).v
                     > Z(R0, bound_angle, params.relaxationFactor).v
                /\ params.turbineYw[ab[1]] # params.turbineYw[ab[2]] => Abs(t2) < Abs(t1)
                /\ params.turbineYw[ab[1]] = params.turbineYw[ab[2]] => (t1 = 0 /\ t2 = 0)
                /\ FactorAt(xi2, ab[1], ab[2]) >= f_theta[ab[1]][ab[2]]

\* A larger relaxation factor brings a pair into the cone, and another pair lies
\* on the wake axis
C6_Witness ==
    /\ FactorDone
    /\ ValidAngle(params.spread_angle)
    /\ \E xi2 \in LargerFactors, ab \in DownstreamPairs :
          f_theta[ab[1]][ab[2]] = 0 /\ FactorAt(xi2, ab[1], ab[2]) > 0
    /\ \E ab \in DownstreamPairs : params.turbineYw[ab[1]] = params.turbineYw[ab[2]]

\* C7: over any sequence of calls on a JensenCosine component, calls with equal
\* inputs give equal outputs whatever ran before or between them, the inputs are
\* left as passed, and the output arrays of earlier calls are left as returned.
C7_Stateless ==
    self.cls = "JensenCosine" =>
        /\ InCall => params = given
        /\ \A a \in 1..Len(log) :
              /\ log[a].params = log[a].given
              /\ heap[log[a].out] = log[a].value
              /\ \A b \in 1..Len(log) :
                    log[a].given = log[b].given => log[a].value = log[b].value

\* Three calls: the first and the third with the same inputs, another between
C7_Witness ==
    /\ self.cls = "JensenCosine"
    /\ Len(log) = 3
    /\ log[1].given = log[3].given
    /\ log[2].given # log[1].given
    /\ log[2].value # log[1].value

\* C8: every output of the Cosine variant is (1 - totalLoss) * V with totalLoss
\* the square root of the summed entries, unclamped: it is negative whenever
\* totalLoss > 1.
C8_NoClamp ==
    (Completed /\ self.cls = "JensenCosine") =>
        \A t \in 1..N :
            /\ unknowns[t] = Mul(ONE - ExpectedTotal(params, f_theta, t), params.wind_speed)
            /\ ExpectedTotal(params, f_theta, t) > ONE => unknowns[t] < 0

\* Valid inputs with a negative velocity in the output
C8_Witness ==
    /\ Completed
    /\ self.cls = "JensenCosine"
    /\ ValidAngle(params.spread_angle)
    /\ params.alpha > 0
    /\ \A t \in 1..N : 0 <= params.axialInduction[t] /\ params.axialInduction[t] < ONE
    /\ \E t \in 1..N : unknowns[t] < 0

\* C9: when totalLoss is computed for the target turbine i, loss[k] is the doubly
\* squared deficit of the pair (k, i) for every k with X[k] < X[i] and 0 for every
\* other k, whatever was computed for earlier targets.
C9_LossAtTotal ==
    pc = "total" =>
        \A k \in 1..N : loss[k] = Expected(params, f_theta, k, i)

\* A turbine that contributed to an earlier target contributes 0 to this one
C9_Witness ==
    /\ pc = "total"
    /\ i > 1
    /\ \E k \in 1..N, e \in 1..(i - 1) :
          /\ Expected(params, f_theta, k, e) > 0
          /\ params.turbineXw[k] >= params.turbineXw[i]
          /\ loss[k] = 0

\* The text of the variant model_options asks for, "default" without one
VariantText ==
    IF model_options.kind = "dict" /\ "variant" \in DOMAIN model_options.d
    THEN model_options.d.variant.s
    ELSE "default"

\* C10: after construction the group holds exactly one component, named f_1:
\* JensenTopHat for 'TopHat' and by default, JensenCosine for 'Cosine',
\* JensenCosineFortran for 'CosineFortran'.
C10_OneComponent ==
    pc # "new" =>
        /\ Len(components) = 1
        /\ components[1].name = "f_1"
        /\ VariantText \in {"TopHat", "default"} => components[1].cls = "JensenTopHat"
        /\ VariantText = "Cosine" => components[1].cls = "JensenCosine"
        /\ VariantText = "CosineFortran" => components[1].cls = "JensenCosineFortran"

====
